---- MODULE Spec2Model ----
(***************************************************************************)
(* Real-time chat delivery: the ConnectionManager (app/chat/websocket.py)  *)
(* and the two WebSocket endpoints (app/chat/ws_routes.py), as asyncio     *)
(* tasks of one server process.  A task runs without interruption between  *)
(* two awaits that can suspend it (accept, send_text, receive_text,        *)
(* asyncio.sleep); every action below is one such uninterrupted run.       *)
(***************************************************************************)
EXTENDS Integers, Sequences, FiniteSets, Bags, TLC

\* ---------------------------------------------------------------- bounds
\* inbound frames the clients send, over all connections
MaxFrames == 2
\* payloads that other server processes publish on the bus
MaxExternal == 1
\* inbound frames in the runs that use the notification endpoint as well
MaxNotifFrames == 1
MaxPosts == 1

\* ------------------------------------------------------------ the world
\* transports that may connect to /ws/chat/{room_id}
RoomConns == {"c1", "c2"}
\* transports that may connect to /ws/notifications
NotifConns == {"n1"}
Conns == RoomConns \cup NotifConns
\* the listener task of the process, beside one handler task per connection
Listener == "listener"
Tasks == Conns \cup {Listener}

None == "None"
\* rows of the users table
Users == {"A", "B"}
\* rows of the chat_rooms table, and the room ids a client may put in the path
Rooms == {1, 2}
RoomIds == {1, 2, 3}
\* room_members: A is in both rooms, B only in room 1
Members(r) == IF r = 1 THEN {"A", "B"} ELSE IF r = 2 THEN {"A"} ELSE {}
Username(u) == IF u = "A" THEN "alice" ELSE IF u = "B" THEN "bob" ELSE None

WS_1008_POLICY_VIOLATION == 1008

\* credentials: of user A, of user B, undecodable, decodable without a
\* subject, and of a user that has no row
Tokens == {"tokA", "tokB", "garbage", "nosub", "ghost"}
\* the credentials each client holds
TokensOf(c) ==
    IF c = "c1" THEN {"tokA", "garbage"}
    ELSE IF c = "c2" THEN {"tokB", "nosub"}
    ELSE {"tokB", "ghost"}
NoPayload == [valid |-> FALSE, sub |-> None]

\* app.core.security.verify_token: the decoded payload, or None
verify_token(token) ==
    IF token = "tokA" THEN [valid |-> TRUE, sub |-> "A"]
    ELSE IF token = "tokB" THEN [valid |-> TRUE, sub |-> "B"]
    ELSE IF token = "ghost" THEN [valid |-> TRUE, sub |-> "Z"]
    ELSE IF token = "nosub" THEN [valid |-> TRUE, sub |-> None]
    ELSE NoPayload

get_current_user_ws_NoLookup(token) ==
    LET payload == verify_token(token) IN
    IF ~payload.valid THEN None
    ELSE payload.sub

get_current_user_ws(token) ==
    LET payload == verify_token(token) IN
    IF ~payload.valid THEN None
    ELSE IF payload.sub = None THEN None
    ELSE IF payload.sub \in Users THEN payload.sub
    ELSE None

verify_room_membership_NoCheck(user_id, room_id) ==
    room_id \in Rooms /\ user_id \in Users

verify_room_membership(user_id, room_id) ==
    IF room_id \notin Rooms THEN FALSE
    ELSE IF user_id \notin Users THEN FALSE
    ELSE user_id \in Members(room_id)

\* ------------------------------------------------------- inbound frames
\* the text frames a client sends, by what json.loads makes of them
RawFrames ==
    { [text |-> "hi", json |-> "object", type |-> "message", content |-> "hi", room_id |-> 0],
      [text |-> "yo", json |-> "object", type |-> None, content |-> "yo", room_id |-> 0],
      [text |-> "empty", json |-> "object", type |-> "message", content |-> None, room_id |-> 0],
      [text |-> "typing1", json |-> "object", type |-> "typing", content |-> None, room_id |-> 1],
      [text |-> "typing2", json |-> "object", type |-> "typing", content |-> None, room_id |-> 2],
      [text |-> "seven", json |-> "scalar", type |-> None, content |-> None, room_id |-> 0],
      [text |-> "not a json", json |-> "invalid", type |-> None, content |-> None, room_id |-> 0] }

Raw(text) == CHOOSE raw \in RawFrames : raw.text = text
\* the frames each client sends in the runs of Spec: its message, a frame
\* that is no JSON, and a message frame without content
MessageOf(c) == Raw(IF c = "c1" THEN "hi" ELSE "yo")
FramesOf(c) == {MessageOf(c), Raw("not a json"), Raw("empty")}

\* the n-th frame of a client that sends "hi" and "yo" in turn
Inbound(n) == IF n % 2 = 1 THEN Raw("hi") ELSE Raw("yo")

\* the frames a client of the notification endpoint sends
NotifFramesOf(c) == {Raw("typing1"), Raw("typing2")}

\* json.loads: "JSONDecodeError", or the value and whether it is a dict
json_loads(raw) ==
    IF raw.json = "invalid" THEN [error |-> "JSONDecodeError", isdict |-> FALSE]
    ELSE [error |-> None, isdict |-> raw.json = "object"]

\* message_data.get("type", "message") and message_data.get("content", "")
get_type(raw, default) == IF raw.type = None THEN default ELSE raw.type
get_content(raw) == IF raw.content = None THEN "" ELSE raw.content

\* ------------------------------------------------------ outbound frames
Frame(type, room_id, user_id, content, id) ==
    [type |-> type, room_id |-> room_id, user_id |-> user_id,
     username |-> Username(user_id), content |-> content, id |-> id]
NoFrame == Frame(None, 0, None, "", 0)
ConnectedFrame(room_id, user_id) == Frame("connected", room_id, user_id, "", 0)
ErrorFrame(message) == Frame("error", 0, None, message, 0)
MessageFrame(m) == Frame("message", m.room_id, m.sender_id, m.content, m.id)
TypingFrame(room_id, user_id) == Frame("typing", room_id, user_id, "", 0)
\* what another process publishes for a room
ExternalFrame(room_id) == Frame("message", room_id, "B", "remote", 0)

InvalidFormat == "Invalid message format"
InvalidNotification == "Invalid notification format"
SetChanged == "Set changed size during iteration"
NotADict == "object has no attribute 'get'"
StoreError == "database error"

\* ------------------------------------------------------- password reset
\* the tokens generate_reset_token may produce, all for the same user
ResetTokens == {"t1", "t2"}
\* the calls of reset_password, each in a request thread with its own session
ResetCalls == {"r1", "r2", "r3"}
\* the new_password each call carries
NewPassword(k) == IF k = "r1" THEN "p1" ELSE IF k = "r2" THEN "p2" ELSE "p3"
\* app.core.security.get_password_hash
get_password_hash(password) == <<"hash", password>>
\* the column default of PasswordResetToken.used, and what mark_as_used sets
UsedDefault == "False"
UsedTrue == "true"
NoCall == [pc |-> "idle", token |-> None, redis_available |-> FALSE,
           result |-> None]

\* ---------------------------------------------------------------- state
VARIABLES
    active_connections,  \* room id -> set of websockets (no key = empty set)
    websocket_users,     \* websocket -> user id, None when unmapped
    listener_task,       \* "none", "running" or "done"
    subscribed,          \* channels (rooms) self.pubsub is subscribed to
    pubsub_queue,        \* payloads the bus delivered to self.pubsub
    iter,                \* per task: the pass over a room's set it is inside
    pc,                  \* per connection: where its handler is suspended
    scope,               \* per connection: "room" or "notif" endpoint
    token,               \* per connection: the token query parameter
    room,                \* per connection: the room_id path parameter
    user,                \* per connection: the authenticated user
    accepted,            \* per connection: websocket.accept() completed
    close_code,          \* per connection: code of websocket.close(), or 0
    broken,              \* per connection: the transport has failed
    outbox,              \* per connection: the bag of frames written to the client
    store,               \* the messages table
    budget,              \* inbound frames still to come
    external,            \* payloads other processes may still publish
    ev,                  \* the last step taken: [kind, who]
    hashed_password,     \* users.hashed_password of the user who resets
    password_reset_tokens, \* token -> its row's "used" column, None = no row
    redis_reset_keys,    \* tokens with a password_reset:{token} key in Redis
    reset_call           \* per reset_password call: where it is, its result

registry == <<active_connections, websocket_users>>
bus == <<listener_task, subscribed, pubsub_queue>>
request == <<scope, token, room, user>>
transport == <<accepted, close_code, broken, outbox>>
env == <<budget, external>>
reset == <<hashed_password, password_reset_tokens, redis_reset_keys, reset_call>>
chat == <<registry, bus, iter, pc, request, transport, store, env, ev>>
vars == <<chat, reset>>

\* The last step, for the steps the properties speak of: its kind, the task
\* that took it, its argument, and the outcome of self.redis.publish when the
\* step called it.  Every other step leaves Quiet.
Observed == {"message", "typing", "invalid_json", "pass_done", "pass_error",
             "reject", "cancel", "external", "store_failed", "typing_ignored",
             "connect_error", "connect_again", "rest_message"}
Quiet == [kind |-> "step", who |-> None, arg |-> None, pub |-> None]
Event(kind, who, arg, pub) ==
    IF kind \in Observed \/ pub # None
    THEN [kind |-> kind, who |-> who, arg |-> arg, pub |-> pub]
    ELSE Quiet

NoIter == [active |-> FALSE, room |-> 0, snap |-> {}, seen |-> {},
           failed |-> {}, dead |-> FALSE, msg |-> NoFrame]

InitWith(frames) ==
    /\ active_connections = [r \in Rooms |-> {}]
    /\ websocket_users = [c \in Conns |-> None]
    /\ listener_task = "none"
    /\ subscribed = {}
    /\ pubsub_queue = <<>>
    /\ iter = [t \in Tasks |-> NoIter]
    /\ pc = [c \in Conns |-> "idle"]
    /\ scope = [c \in Conns |-> None]
    /\ token = [c \in Conns |-> None]
    /\ room = [c \in Conns |-> 0]
    /\ user = [c \in Conns |-> None]
    /\ accepted = [c \in Conns |-> FALSE]
    /\ close_code = [c \in Conns |-> 0]
    /\ broken = [c \in Conns |-> FALSE]
    /\ outbox = [c \in Conns |-> EmptyBag]
    /\ store = <<>>
    /\ budget = frames
    /\ external = MaxExternal
    /\ ev = Quiet
    /\ hashed_password = get_password_hash("old")
    /\ password_reset_tokens = [t \in ResetTokens |-> None]
    /\ redis_reset_keys = {}
    /\ reset_call = [k \in ResetCalls |-> NoCall]

Init == InitWith(MaxFrames)
InitNotif == InitWith(MaxNotifFrames)

\* ------------------------------------------------- ConnectionManager
\* connect, after websocket.accept() has returned
connect_ac(ac, websocket, room_id) ==
    [ac EXCEPT ![room_id] = @ \cup {websocket}]
connect_wu(wu, websocket, user_id) ==
    [wu EXCEPT ![websocket] = user_id]
connect_task(task) ==
    IF task = "none" THEN "running" ELSE task

disconnect_wu_Keep(wu, websocket) == wu

disconnect_ac(ac, websocket, room_id) ==
    IF room_id \in Rooms /\ ac[room_id] # {}
    THEN [ac EXCEPT ![room_id] = @ \ {websocket}]
    ELSE ac
disconnect_wu(wu, websocket) ==
    IF wu[websocket] # None THEN [wu EXCEPT ![websocket] = None] ELSE wu

\* for ws in disconnected: await self.disconnect(ws, room_id)
RECURSIVE cleanup_ac(_, _, _)
cleanup_ac(ac, disconnected, room_id) ==
    IF disconnected = {} THEN ac
    ELSE LET ws == CHOOSE w \in disconnected : TRUE IN
         cleanup_ac(disconnect_ac(ac, ws, room_id), disconnected \ {ws}, room_id)
RECURSIVE cleanup_wu(_, _)
cleanup_wu(wu, disconnected) ==
    IF disconnected = {} THEN wu
    ELSE LET ws == CHOOSE w \in disconnected : TRUE IN
         cleanup_wu(disconnect_wu(wu, ws), disconnected \ {ws})

\* websocket.send_text: the frame reaches the client unless the transport
\* has failed, and then the call raises
SendOk(websocket) == ~broken[websocket]
Sent(ob, websocket, frame) ==
    IF SendOk(websocket)
    THEN [ob EXCEPT ![websocket] = @ (+) SetToBag({frame})]
    ELSE ob

\* A set iterator raises RuntimeError when the set's size differs from the
\* size it had when the loop began; a set whose key was deleted from
\* active_connections is empty for the iterators still bound to it.
SetChangedSize(it) ==
    it.dead \/ Cardinality(active_connections[it.room]) # Cardinality(it.snap)
\* members the iterator has not produced yet; the ones added since the loop
\* began may lie behind its position and be skipped
Unvisited(it) == active_connections[it.room] \ it.seen
MustVisit(it) == Unvisited(it) \cap it.snap
\* iterators bound to a set that a disconnect has just emptied and deleted
Orphan(its, ac) ==
    [t \in Tasks |->
        IF its[t].active /\ ac[its[t].room] = {}
        THEN [its[t] EXCEPT !.dead = TRUE] ELSE its[t]]

PassBegin_AnyRoom(t, room_id, message) ==
    \E websocket \in UNION {active_connections[r] : r \in Rooms} :
        /\ iter' = [iter EXCEPT ![t] =
                [active |-> TRUE, room |-> room_id,
                 snap |-> active_connections[room_id], seen |-> {websocket},
                 failed |-> IF SendOk(websocket) THEN {} ELSE {websocket},
                 dead |-> FALSE, msg |-> message]]
        /\ outbox' = Sent(outbox, websocket, message)

\* the first iteration of "for websocket in self.active_connections[room_id]"
\* up to the first suspension inside send_text
PassBegin(t, room_id, message) ==
    \E websocket \in active_connections[room_id] :
        /\ iter' = [iter EXCEPT ![t] =
                [active |-> TRUE, room |-> room_id,
                 snap |-> active_connections[room_id], seen |-> {websocket},
                 failed |-> IF SendOk(websocket) THEN {} ELSE {websocket},
                 dead |-> FALSE, msg |-> message]]
        /\ outbox' = Sent(outbox, websocket, message)

\* a later iteration: the next member and the write to it
PassNext(t) ==
    \E websocket \in Unvisited(iter[t]) :
        /\ iter' = [iter EXCEPT ![t].seen = @ \cup {websocket},
                                ![t].failed = IF SendOk(websocket) THEN @
                                              ELSE @ \cup {websocket}]
        /\ outbox' = Sent(outbox, websocket, iter[t].msg)

\* the end of the loop: clean up disconnected websockets
PassCleanup(t) ==
    /\ active_connections' =
            cleanup_ac(active_connections, iter[t].failed, iter[t].room)
    /\ websocket_users' = cleanup_wu(websocket_users, iter[t].failed)
    /\ iter' = Orphan([iter EXCEPT ![t] = NoIter], active_connections')

\* self.redis.publish(channel, message_json) inside try/except: the bus
\* hands the payload to every subscriber of the channel, this process's own
\* pubsub included; an unreachable bus raises and the error is printed
Publish(room_id, message, ok) ==
    /\ pubsub_queue' =
            IF ok /\ room_id \in subscribed
            THEN Append(pubsub_queue, [room |-> room_id, data |-> message])
            ELSE pubsub_queue
    /\ UNCHANGED <<listener_task, subscribed>>
PubResult(ok) == IF ok THEN "ok" ELSE "failed"

\* ------------------------------------------------------- the endpoints
\* the handler's exits through "except WebSocketDisconnect" and "except
\* Exception": the chat endpoint calls manager.disconnect, the notification
\* endpoint does nothing; both then close the database session
HandlerExit(c) ==
    /\ active_connections' =
            IF scope[c] = "room"
            THEN disconnect_ac(active_connections, c, room[c])
            ELSE active_connections
    /\ websocket_users' =
            IF scope[c] = "room"
            THEN disconnect_wu(websocket_users, c)
            ELSE websocket_users
    /\ iter' = Orphan([iter EXCEPT ![c] = NoIter], active_connections')
    /\ pc' = [pc EXCEPT ![c] = "closed"]

\* websocket_chat_endpoint from the request to its first await: the close
\* with the policy-violation code, or websocket.accept() inside connect
OpenChat(c, room_id, tok) ==
    /\ c \in RoomConns
    /\ pc[c] = "idle"
    /\ scope' = [scope EXCEPT ![c] = "room"]
    /\ token' = [token EXCEPT ![c] = tok]
    /\ room' = [room EXCEPT ![c] = room_id]
    /\ user' = [user EXCEPT ![c] = get_current_user_ws(tok)]
    /\ IF user'[c] = None \/ ~verify_room_membership(user'[c], room_id)
       THEN /\ close_code' = [close_code EXCEPT ![c] = WS_1008_POLICY_VIOLATION]
            /\ pc' = [pc EXCEPT ![c] = "rejected"]
            /\ ev' = Event("reject", c, None, None)
       ELSE /\ close_code' = close_code
            /\ pc' = [pc EXCEPT ![c] = "accepting"]
            /\ ev' = Event("open", c, None, None)
    /\ UNCHANGED <<registry, bus, iter, accepted, broken, outbox, store, env>>
    /\ UNCHANGED reset

\* websocket_notifications_endpoint from the request to its first await
OpenNotif(c, tok) ==
    /\ c \in NotifConns
    /\ pc[c] = "idle"
    /\ scope' = [scope EXCEPT ![c] = "notif"]
    /\ token' = [token EXCEPT ![c] = tok]
    /\ user' = [user EXCEPT ![c] = get_current_user_ws(tok)]
    /\ IF user'[c] = None
       THEN /\ close_code' = [close_code EXCEPT ![c] = WS_1008_POLICY_VIOLATION]
            /\ pc' = [pc EXCEPT ![c] = "rejected"]
            /\ ev' = Event("reject", c, None, None)
       ELSE /\ close_code' = close_code
            /\ pc' = [pc EXCEPT ![c] = "accepting"]
            /\ ev' = Event("open", c, None, None)
    /\ UNCHANGED <<registry, bus, iter, room, accepted, broken, outbox, store, env>>
    /\ UNCHANGED reset

\* websocket.accept() returns: the rest of ConnectionManager.connect for the
\* chat endpoint, up to the await inside the send of the connected frame
Accept(c) ==
    /\ pc[c] = "accepting"
    /\ IF broken[c]
       THEN /\ HandlerExit(c)
            /\ ev' = Event("accept_failed", c, None, None)
            /\ UNCHANGED <<bus, accepted>>
       ELSE /\ accepted' = [accepted EXCEPT ![c] = TRUE]
            /\ pc' = [pc EXCEPT ![c] = "confirming"]
            /\ ev' = Event("accept", c, None, None)
            /\ IF scope[c] = "room"
               THEN /\ active_connections' = connect_ac(active_connections, c, room[c])
                    /\ websocket_users' = connect_wu(websocket_users, c, user[c])
                    /\ listener_task' = connect_task(listener_task)
                    /\ UNCHANGED <<subscribed, pubsub_queue>>
               ELSE UNCHANGED <<registry, bus>>
            /\ UNCHANGED iter
    /\ UNCHANGED <<request, close_code, broken, outbox, store, env>>
    /\ UNCHANGED reset

\* the connected frame is written
Confirm(c) ==
    /\ pc[c] = "confirming"
    /\ IF SendOk(c)
       THEN /\ outbox' = Sent(outbox, c,
                    ConnectedFrame(IF scope[c] = "room" THEN room[c] ELSE 0, user[c]))
            /\ pc' = [pc EXCEPT ![c] = "recv"]
            /\ ev' = Event("confirm", c, None, None)
            /\ UNCHANGED <<registry, iter>>
       ELSE /\ HandlerExit(c)
            /\ ev' = Event("confirm_failed", c, None, None)
            /\ UNCHANGED outbox
    /\ UNCHANGED <<bus, request, accepted, close_code, broken, store, env>>
    /\ UNCHANGED reset

ReplyError_Drop(c, kind, message) ==
    /\ pc' = [pc EXCEPT ![c] = "recv"]
    /\ iter' = [iter EXCEPT ![c] = NoIter]
    /\ ev' = Event(kind, c, None, None)
    /\ UNCHANGED <<registry, bus, outbox>>

\* an error frame to the connection itself, from the except clauses inside
\* the receive loop; when the send raises, the outer except clauses run
ReplyError(c, kind, message) ==
    /\ IF SendOk(c)
       THEN /\ outbox' = Sent(outbox, c, ErrorFrame(message))
            /\ pc' = [pc EXCEPT ![c] = "recv"]
            /\ iter' = [iter EXCEPT ![c] = NoIter]
            /\ UNCHANGED registry
       ELSE /\ HandlerExit(c)
            /\ UNCHANGED outbox
    /\ ev' = Event(kind, c, None, None)
    /\ UNCHANGED bus

Broadcast_Detached(c, kind, arg, room_id, message) ==
    IF active_connections[room_id] # {}
    THEN /\ PassBegin(c, room_id, message)
         /\ pc' = pc
         /\ ev' = Event(kind, c, arg, None)
         /\ UNCHANGED <<registry, bus>>
    ELSE /\ \E ok \in BOOLEAN :
                /\ Publish(room_id, message, ok)
                /\ ev' = Event(kind, c, arg, PubResult(ok))
         /\ UNCHANGED <<registry, iter, pc, outbox>>

\* manager.broadcast_to_room up to its first suspension, or to its end when
\* the room has no entry
Broadcast(c, kind, arg, room_id, message) ==
    IF active_connections[room_id] # {}
    THEN /\ PassBegin(c, room_id, message)
         /\ pc' = [pc EXCEPT ![c] = "bpass"]
         /\ ev' = Event(kind, c, arg, None)
         /\ UNCHANGED <<registry, bus>>
    ELSE /\ \E ok \in BOOLEAN :
                /\ Publish(room_id, message, ok)
                /\ ev' = Event(kind, c, arg, PubResult(ok))
         /\ UNCHANGED <<registry, iter, pc, outbox>>

NewMessage_Anonymous(room_id, sender_id, content) ==
    [id |-> Len(store) + 1, room_id |-> room_id, sender_id |-> None,
     content |-> content]

\* save_message_to_db: the new row of the messages table
NewMessage(room_id, sender_id, content) ==
    [id |-> Len(store) + 1, room_id |-> room_id, sender_id |-> sender_id,
     content |-> content]

ReceiveChat_FanOutUnsaved(c, raw, saved) ==
    /\ pc[c] = "recv" /\ scope[c] = "room"
    /\ budget > 0
    /\ budget' = budget - 1
    /\ IF get_type(raw, "message") = "message" /\ get_content(raw) # ""
       THEN LET m == NewMessage(room[c], user[c], get_content(raw)) IN
            /\ store' = IF saved THEN Append(store, m) ELSE store
            /\ Broadcast(c, IF saved THEN "message" ELSE "store_failed",
                         raw.text, room[c], MessageFrame(m))
       ELSE /\ ev' = Event("ignored", c, None, None)
            /\ UNCHANGED <<registry, bus, iter, pc, outbox, store>>
    /\ UNCHANGED <<request, accepted, close_code, broken, external>>
    /\ UNCHANGED reset

\* one frame of the chat endpoint's receive loop
ReceiveChat(c, raw, saved) ==
    /\ pc[c] = "recv" /\ scope[c] = "room"
    /\ budget > 0
    /\ budget' = budget - 1
    /\ LET parsed == json_loads(raw) IN
       IF parsed.error # None
       THEN ReplyError(c, "invalid_json", InvalidFormat) /\ UNCHANGED store
       ELSE IF ~parsed.isdict
       THEN ReplyError(c, "not_a_dict", NotADict) /\ UNCHANGED store
       ELSE IF get_type(raw, "message") = "message" /\ get_content(raw) # ""
       THEN IF saved
            THEN LET m == NewMessage(room[c], user[c], get_content(raw)) IN
                 /\ store' = Append(store, m)
                 /\ Broadcast(c, "message", raw.text, room[c], MessageFrame(m))
            ELSE ReplyError(c, "store_failed", StoreError) /\ UNCHANGED store
       ELSE /\ ev' = Event("ignored", c, None, None)
            /\ UNCHANGED <<registry, bus, iter, pc, outbox, store>>
    /\ UNCHANGED <<request, accepted, close_code, broken, external>>
    /\ UNCHANGED reset

\* one frame of the notification endpoint's receive loop
ReceiveNotif(c, raw) ==
    /\ pc[c] = "recv" /\ scope[c] = "notif"
    /\ budget > 0
    /\ budget' = budget - 1
    /\ LET parsed == json_loads(raw) IN
       IF parsed.error # None
       THEN ReplyError(c, "invalid_json", InvalidNotification)
       ELSE IF ~parsed.isdict
       THEN ReplyError(c, "not_a_dict", NotADict)
       ELSE IF get_type(raw, None) = "typing"
               /\ raw.room_id # 0 /\ verify_room_membership(user[c], raw.room_id)
       THEN Broadcast(c, "typing", raw.text, raw.room_id,
                      TypingFrame(raw.room_id, user[c]))
       ELSE /\ ev' = Event(IF get_type(raw, None) = "typing" THEN "typing_ignored"
                           ELSE "ignored", c, raw.text, None)
            /\ UNCHANGED <<registry, bus, iter, pc, outbox>>
    /\ UNCHANGED <<request, accepted, close_code, broken, store, external>>
    /\ UNCHANGED reset

\* receive_text raises WebSocketDisconnect
ReceiveDisconnect(c) ==
    /\ pc[c] = "recv"
    /\ broken[c]
    /\ HandlerExit(c)
    /\ ev' = Event("disconnect", c, None, None)
    /\ UNCHANGED <<bus, request, transport, store, env>>
    /\ UNCHANGED reset

\* broadcast_to_room returns to the receive loop after the publish: the
\* try/except around self.redis.publish prints a failure and goes on
PassEnd_Raises(c, ok) ==
    IF ok
    THEN pc' = [pc EXCEPT ![c] = "recv"] /\ outbox' = outbox
    ELSE pc' = [pc EXCEPT ![c] = "recv"]
         /\ outbox' = Sent(outbox, c, ErrorFrame("publish failed"))

PassEnd(c, ok) ==
    /\ pc' = [pc EXCEPT ![c] = "recv"]
    /\ outbox' = outbox

\* the handler resumes inside the loop of broadcast_to_room
PassStep(c) ==
    /\ pc[c] = "bpass"
    /\ IF SetChangedSize(iter[c])
       THEN ReplyError(c, "pass_error", SetChanged)
       ELSE \/ /\ PassNext(c)
               /\ ev' = Event("write", c, None, None)
               /\ UNCHANGED <<registry, bus, pc>>
            \/ /\ MustVisit(iter[c]) = {}
               /\ PassCleanup(c)
               /\ \E ok \in BOOLEAN :
                    /\ Publish(iter[c].room, iter[c].msg, ok)
                    /\ PassEnd(c, ok)
                    /\ ev' = Event("pass_done", c, None, PubResult(ok))
    /\ UNCHANGED <<request, accepted, close_code, broken, store, env>>
    /\ UNCHANGED reset

\* ---------------------------------------------------------- the listener
\* the listener's except/finally: self.pubsub.close(); listener_task keeps
\* naming the finished task
ListenerEnds(kind) ==
    /\ listener_task' = "done"
    /\ subscribed' = {}
    /\ pubsub_queue' = <<>>
    /\ iter' = [iter EXCEPT ![Listener] = NoIter]
    /\ ev' = Event(kind, Listener, None, None)
    /\ UNCHANGED <<registry, outbox>>

\* one turn of "while True": subscribe to the channels of all rooms with an
\* entry, get_message, and the start of the pass over the payload's room
ListenerLoop ==
    /\ listener_task = "running"
    /\ ~iter[Listener].active
    /\ \E reachable \in BOOLEAN :
        IF ~reachable
        THEN ListenerEnds("listener_failed")
        ELSE /\ subscribed' = subscribed \cup {r \in Rooms : active_connections[r] # {}}
             /\ listener_task' = listener_task
             /\ UNCHANGED registry
             /\ \/ /\ ev' = Event("listen", Listener, None, None)
                   /\ UNCHANGED <<pubsub_queue, iter, outbox>>
                \/ /\ pubsub_queue # <<>>
                   /\ pubsub_queue' = Tail(pubsub_queue)
                   /\ ev' = Event("payload", Listener, Head(pubsub_queue).room, None)
                   /\ IF active_connections[Head(pubsub_queue).room] # {}
                      THEN PassBegin(Listener, Head(pubsub_queue).room,
                                     Head(pubsub_queue).data)
                      ELSE UNCHANGED <<iter, outbox>>
    /\ UNCHANGED <<pc, request, accepted, close_code, broken, store, env>>
    /\ UNCHANGED reset

\* the listener resumes inside the loop over the room's set
ListenerPassStep ==
    /\ listener_task = "running"
    /\ iter[Listener].active
    /\ IF SetChangedSize(iter[Listener])
       THEN ListenerEnds("listener_error")
       ELSE \/ /\ PassNext(Listener)
               /\ ev' = Event("write", Listener, None, None)
               /\ UNCHANGED <<registry, bus>>
            \/ /\ MustVisit(iter[Listener]) = {}
               /\ PassCleanup(Listener)
               /\ ev' = Event("pass_done", Listener, None, None)
               /\ UNCHANGED <<bus, outbox>>
    /\ UNCHANGED <<pc, request, accepted, close_code, broken, store, env>>
    /\ UNCHANGED reset

\* ------------------------------------------------------ the environment
\* the client goes away or the network fails
Break(c) ==
    /\ pc[c] \in {"accepting", "confirming", "recv", "bpass"}
    /\ ~broken[c]
    /\ broken' = [broken EXCEPT ![c] = TRUE]
    /\ ev' = Event("break", c, None, None)
    /\ UNCHANGED <<registry, bus, iter, pc, request, accepted, close_code,
                   outbox, store, env>>
    /\ UNCHANGED reset

\* another server process publishes a payload for a room
ExternalPublish(room_id) ==
    /\ external > 0
    /\ external' = external - 1
    /\ Publish(room_id, ExternalFrame(room_id), TRUE)
    /\ ev' = Event("external", None, room_id, None)
    /\ UNCHANGED <<registry, iter, pc, request, transport, store, budget>>
    /\ UNCHANGED reset

\* the handler's task is cancelled where it is suspended: CancelledError is
\* no Exception, so only "finally: db.close()" runs
Cancel(c) ==
    /\ pc[c] \in {"accepting", "confirming", "recv", "bpass"}
    /\ pc' = [pc EXCEPT ![c] = "cancelled"]
    /\ iter' = [iter EXCEPT ![c] = NoIter]
    /\ ev' = Event("cancel", c, None, None)
    /\ UNCHANGED <<registry, bus, request, transport, store, env>>
    /\ UNCHANGED reset

websocket_accept_Lenient(c) == "ok"

\* websocket.accept() on a websocket whose handshake is already done: the
\* ASGI state machine takes no second accept and raises RuntimeError
websocket_accept(c) == IF accepted[c] THEN "RuntimeError" ELSE "ok"

\* manager.connect called again for a connection that is registered for the
\* room: accept raises before the registry is touched; were it to return, the
\* set would absorb the add and the user mapping would be overwritten
ConnectAgain(c, room_id, user_id) ==
    /\ scope[c] = "room" /\ accepted[c]
    /\ c \in active_connections[room_id]
    /\ IF websocket_accept(c) = "ok"
       THEN /\ active_connections' = connect_ac(active_connections, c, room_id)
            /\ websocket_users' = connect_wu(websocket_users, c, user_id)
            /\ listener_task' = connect_task(listener_task)
            /\ ev' = Event("connect_again", c, room_id, None)
       ELSE /\ ev' = Event("connect_error", c, room_id, None)
            /\ UNCHANGED <<registry, listener_task>>
    /\ UNCHANGED <<subscribed, pubsub_queue, iter, pc, request, transport, store, env>>
    /\ UNCHANGED reset

\* ----------------------------------------------------- the REST endpoint
\* the content of the messages that clients post over HTTP
RestContent == "over http"
RestRows == {i \in DOMAIN store : store[i].content = RestContent}

send_message_Publishing(room_id, current_user, content) ==
    /\ Cardinality(RestRows) < MaxPosts
    /\ room_id \in Rooms /\ current_user \in Members(room_id)
    /\ LET new_message == [id |-> Len(store) + 1, room_id |-> room_id,
                           sender_id |-> current_user, content |-> content] IN
       /\ store' = Append(store, new_message)
       /\ Publish(room_id, MessageFrame(new_message), TRUE)
    /\ ev' = Event("rest_message", current_user, room_id, None)
    /\ UNCHANGED <<registry, iter, pc, request, transport, env>>
    /\ UNCHANGED reset

\* POST /rooms/{room_id}/messages for an authenticated user: 404 without the
\* room, 403 without the membership, else the new row and its response
send_message(room_id, current_user, content) ==
    /\ Cardinality(RestRows) < MaxPosts
    /\ IF room_id \notin Rooms \/ current_user \notin Members(room_id)
       THEN /\ store' = store
            /\ ev' = Event("rest_rejected", current_user, room_id, None)
       ELSE /\ store' = Append(store, [id |-> Len(store) + 1, room_id |-> room_id,
                                       sender_id |-> current_user,
                                       content |-> content])
            /\ ev' = Event("rest_message", current_user, room_id, None)
    /\ UNCHANGED <<registry, bus, iter, pc, request, transport, env>>
    /\ UNCHANGED reset

\* ------------------------------------------------ PasswordResetService
\* PasswordResetToken.is_used
is_used(used) == used = UsedTrue

\* verify_reset_token as a call with the given redis_available would answer
\* now, the Redis lookup working (ok) or raising: the user, or None
verify_reset_token(tok, redis_available, ok) ==
    LET db_token == password_reset_tokens[tok] IN
    IF /\ redis_available /\ ok /\ tok \in redis_reset_keys
       /\ db_token # None /\ ~is_used(db_token)
    THEN "A"
    ELSE IF db_token # None /\ ~is_used(db_token) THEN "A"
    ELSE None

\* create_reset_token for the user's email
create_reset_token(tok, redis_available, ok) ==
    /\ password_reset_tokens[tok] = None
    /\ password_reset_tokens' = [password_reset_tokens EXCEPT ![tok] = UsedDefault]
    /\ redis_reset_keys' = IF redis_available /\ ok
                           THEN redis_reset_keys \cup {tok} ELSE redis_reset_keys
    /\ UNCHANGED <<hashed_password, reset_call, chat>>

\* reset_password from the construction of the service to the answer of
\* verify_reset_token: False is returned, or the call goes on
ResetVerify(k, tok, redis_available, ok) ==
    /\ reset_call[k].pc = "idle"
    /\ LET found == verify_reset_token(tok, redis_available, ok) IN
       reset_call' = [reset_call EXCEPT ![k] =
            [pc |-> IF found = None THEN "returned" ELSE "verified",
             token |-> tok, redis_available |-> redis_available,
             result |-> IF found = None THEN "False" ELSE None]]
    /\ UNCHANGED <<hashed_password, password_reset_tokens, redis_reset_keys, chat>>

\* the rest of reset_password: the new hash, mark_as_used, the delete of the
\* Redis key, the commit, and True
ResetCommit(k, ok) ==
    /\ reset_call[k].pc = "verified"
    /\ hashed_password' = get_password_hash(NewPassword(k))
    /\ password_reset_tokens' =
            [password_reset_tokens EXCEPT ![reset_call[k].token] = UsedTrue]
    /\ redis_reset_keys' = IF reset_call[k].redis_available /\ ok
                           THEN redis_reset_keys \ {reset_call[k].token}
                           ELSE redis_reset_keys
    /\ reset_call' = [reset_call EXCEPT ![k].pc = "returned", ![k].result = "True"]
    /\ UNCHANGED chat

\* the password-reset endpoints, each request in a thread of the pool
NextReset ==
    \/ \E tok \in ResetTokens, avail \in BOOLEAN, ok \in BOOLEAN :
            create_reset_token(tok, avail, ok)
    \/ \E k \in ResetCalls, tok \in ResetTokens, avail \in BOOLEAN, ok \in BOOLEAN :
            ResetVerify(k, tok, avail, ok)
    \/ \E k \in ResetCalls, ok \in BOOLEAN : ResetCommit(k, ok)
SpecReset == Init /\ [][NextReset]_vars

Next ==
    \/ \E c \in RoomConns, r \in RoomIds : \E tok \in TokensOf(c) : OpenChat(c, r, tok)
    \/ \E c \in RoomConns : Accept(c)
    \/ \E c \in RoomConns : Confirm(c)
    \/ \E c \in RoomConns : \E raw \in FramesOf(c) : ReceiveChat(c, raw, TRUE)
    \/ \E c \in RoomConns : ReceiveDisconnect(c)
    \/ \E c \in RoomConns : PassStep(c)
    \/ ListenerLoop
    \/ ListenerPassStep
    \/ \E c \in RoomConns : Break(c)

Spec == Init /\ [][Next]_vars

\* the process with the notification endpoint in use as well
NextNotif ==
    \/ \E c \in RoomConns, r \in RoomIds : \E tok \in TokensOf(c) : OpenChat(c, r, tok)
    \/ \E c \in RoomConns : Accept(c)
    \/ \E c \in RoomConns : Confirm(c)
    \/ \E c \in RoomConns : ReceiveChat(c, MessageOf(c), TRUE)
    \/ \E c \in RoomConns : ReceiveDisconnect(c)
    \/ \E c \in RoomConns : PassStep(c)
    \/ ListenerLoop
    \/ ListenerPassStep
    \/ \E c \in RoomConns : Break(c)
    \/ \E c \in NotifConns : \E tok \in TokensOf(c) : OpenNotif(c, tok)
    \/ \E c \in NotifConns : Accept(c)
    \/ \E c \in NotifConns : Confirm(c)
    \/ \E c \in NotifConns : \E raw \in NotifFramesOf(c) : ReceiveNotif(c, raw)
    \/ \E c \in NotifConns : ReceiveDisconnect(c)
    \/ \E c \in NotifConns : PassStep(c)
    \/ \E c \in NotifConns : Break(c)
SpecNotif == InitNotif /\ [][NextNotif]_vars

\* the process beside other server processes that publish on the same bus
NextBus == Next \/ \E r \in Rooms : ExternalPublish(r)
SpecBus == Init /\ [][NextBus]_vars

\* the same process while the server cancels handler tasks (shutdown)
NextCancel == Next \/ \E c \in RoomConns : Cancel(c)
SpecCancel == Init /\ [][NextCancel]_vars

\* the same process with a database whose commit may fail
NextStore == Next \/ \E c \in RoomConns : ReceiveChat(c, MessageOf(c), FALSE)
SpecStore == Init /\ [][NextStore]_vars

\* the same process with clients whose frames arrive in a known order: the
\* n-th frame the process reads is Inbound(n)
NextOrder ==
    \/ \E c \in RoomConns, r \in RoomIds : \E tok \in TokensOf(c) : OpenChat(c, r, tok)
    \/ \E c \in RoomConns : Accept(c)
    \/ \E c \in RoomConns : Confirm(c)
    \/ \E c \in RoomConns : ReceiveChat(c, Inbound(MaxFrames - budget + 1), TRUE)
    \/ \E c \in RoomConns : ReceiveDisconnect(c)
    \/ \E c \in RoomConns : PassStep(c)
    \/ ListenerLoop
    \/ ListenerPassStep
    \/ \E c \in RoomConns : Break(c)
SpecOrder == Init /\ [][NextOrder]_vars

\* the process with clients of the chat endpoint that only listen and a
\* client of the notification endpoint that sends typing frames
NextTyping ==
    \/ \E c \in RoomConns, r \in RoomIds : \E tok \in TokensOf(c) : OpenChat(c, r, tok)
    \/ \E c \in NotifConns : \E tok \in TokensOf(c) : OpenNotif(c, tok)
    \/ \E c \in Conns : Accept(c)
    \/ \E c \in Conns : Confirm(c)
    \/ \E c \in NotifConns : \E raw \in NotifFramesOf(c) : ReceiveNotif(c, raw)
    \/ \E c \in Conns : ReceiveDisconnect(c)
    \/ \E c \in NotifConns : PassStep(c)
    \/ ListenerLoop
    \/ ListenerPassStep
    \/ \E c \in Conns : Break(c)
SpecTyping == InitNotif /\ [][NextTyping]_vars

\* process B of two: its clients only listen, process A publishes, the bus
\* stays reachable and B's listening loop keeps being scheduled
NextRelay ==
    \/ \E c \in RoomConns, r \in RoomIds : \E tok \in TokensOf(c) : OpenChat(c, r, tok)
    \/ \E c \in RoomConns : Accept(c)
    \/ \E c \in RoomConns : Confirm(c)
    \/ \E c \in RoomConns : ReceiveDisconnect(c)
    \/ ListenerLoop /\ listener_task' = "running"
    \/ ListenerPassStep
    \/ \E c \in RoomConns : Break(c)
    \/ \E r \in Rooms : ExternalPublish(r)
SpecRelay ==
    /\ Init /\ [][NextRelay]_vars
    /\ WF_vars(ListenerLoop /\ listener_task' = "running")
    /\ WF_vars(ListenerPassStep)

\* the same process with callers that register a registered connection again
NextReconnect ==
    Next \/ \E c \in RoomConns, r \in Rooms, u \in Users : ConnectAgain(c, r, u)
SpecReconnect == Init /\ [][NextReconnect]_vars

\* the process with both endpoints in use, senders in both rooms and
\* transports that stay up
NextRooms ==
    \/ \E c \in RoomConns, r \in Rooms :
            \E tok \in TokensOf(c) \cap {"tokA", "tokB"} : OpenChat(c, r, tok)
    \/ \E c \in NotifConns : \E tok \in TokensOf(c) \cap {"tokA", "tokB"} : OpenNotif(c, tok)
    \/ \E c \in Conns : Accept(c)
    \/ \E c \in Conns : Confirm(c)
    \/ \E c \in RoomConns : ReceiveChat(c, MessageOf(c), TRUE)
    \/ \E c \in NotifConns : \E raw \in NotifFramesOf(c) : ReceiveNotif(c, raw)
    \/ \E c \in Conns : PassStep(c)
    \/ ListenerLoop
    \/ ListenerPassStep
SpecRooms == Init /\ [][NextRooms]_vars

\* the process with user B also posting messages over HTTP, and transports
\* that stay up
NextRest ==
    \/ \E c \in RoomConns, r \in Rooms :
            \E tok \in TokensOf(c) \cap {"tokA", "tokB"} : OpenChat(c, r, tok)
    \/ \E c \in RoomConns : Accept(c)
    \/ \E c \in RoomConns : Confirm(c)
    \/ \E c \in RoomConns : ReceiveChat(c, MessageOf(c), TRUE)
    \/ \E c \in RoomConns : PassStep(c)
    \/ ListenerLoop
    \/ ListenerPassStep
    \/ \E r \in RoomIds : send_message(r, "B", RestContent)
SpecRest == Init /\ [][NextRest]_vars

\* ============================================================ properties
Registered(c) == \E r \in Rooms : c \in active_connections[r]
Unregistered(c) == ~Registered(c) /\ websocket_users[c] = None
Has(c, frame) == BagIn(frame, outbox[c])
\* the pass of task t ends in this step
PassEnds(t) == iter[t].active /\ ~iter'[t].active
\* what the room_members table says, read without the code under check
IsMember(u, r) == r \in Rooms /\ u \in Members(r)
BadToken(tok) == tok \in {"garbage", "nosub", "ghost"}
Ended(c) == pc[c] \in {"closed", "rejected", "cancelled"}

\* C1: when a pass of broadcast_to_room over room R ends, every connection
\* that was registered for R when the pass began and still is has been
\* written the message, unless its own write failed: nothing but a failure
\* of its own write keeps the message from a registered connection.
C1_PassReachesAll ==
    [][\A c \in Conns :
          PassEnds(c) =>
             (iter[c].snap \cap active_connections[iter[c].room]) \subseteq iter[c].seen]_vars

\* C2: when a pass over room R ends, every connection whose write failed in
\* it is out of R's registry entry and out of the connection-to-user mapping.
C2_FailedIsRemoved ==
    [][\A t \in Tasks :
          PassEnds(t) =>
             \A x \in iter[t].failed :
                /\ x \notin active_connections'[iter[t].room]
                /\ websocket_users'[x] = None]_vars

\* C3: a chat connection attempt by an authenticated user who is no member of
\* the room, or for a room without a row, is closed with the
\* policy-violation code, is never accepted nor registered, and is sent no
\* frame; the step that rejects it leaves the registry as it was.
C3_NonMemberRejected ==
    /\ [](\A c \in RoomConns :
            (pc[c] # "idle" /\ user[c] # None /\ ~IsMember(user[c], room[c]))
               => /\ pc[c] = "rejected"
                  /\ close_code[c] = WS_1008_POLICY_VIOLATION
                  /\ ~accepted[c]
                  /\ Unregistered(c)
                  /\ outbox[c] = EmptyBag)
    /\ [][ev'.kind = "reject" => UNCHANGED registry]_vars

C3_Witness ==
    /\ pc["c2"] = "rejected" /\ user["c2"] = "B" /\ room["c2"] = 2
    /\ active_connections[2] = {"c1"}
    /\ ev.kind = "reject"

\* C4: a connection attempt on either endpoint with a credential that is
\* undecodable, has no subject or names no user is closed with the
\* policy-violation code and is over: it is never accepted, never registered,
\* never sent a frame, and its handler never takes a frame or starts a pass.
C4_BadCredentialRejected ==
    /\ [](\A c \in Conns :
            (pc[c] # "idle" /\ BadToken(token[c]))
               => /\ pc[c] = "rejected"
                  /\ close_code[c] = WS_1008_POLICY_VIOLATION
                  /\ ~accepted[c]
                  /\ Unregistered(c)
                  /\ outbox[c] = EmptyBag
                  /\ ~iter[c].active
                  /\ (ev.kind \in {"message", "typing"} => ev.who # c))
    /\ [][\A c \in Conns : pc[c] = "rejected" => pc'[c] = "rejected"]_vars

C4_Witness ==
    /\ pc["n1"] = "rejected" /\ token["n1"] = "ghost"
    /\ pc["c1"] = "rejected" /\ token["c1"] = "garbage"
    /\ pc["c2"] = "rejected" /\ token["c2"] = "nosub"

\* C5: the step that takes a message frame with content X from connection c
\* of user A in room R adds exactly one row (R, A, X) to the store, and when
\* the broadcast of that message ends every connection that was registered
\* for R when it began, still is and is open has the message frame with
\* content X, sender A, A's username and room R.
C5_SendPersistsAndDelivers ==
    /\ [][ev'.kind = "message" =>
            /\ Len(store') = Len(store) + 1
            /\ SubSeq(store', 1, Len(store)) = store
            /\ store'[Len(store')].room_id = room[ev'.who]
            /\ store'[Len(store')].sender_id = user[ev'.who]
            /\ store'[Len(store')].content = Raw(ev'.arg).content]_vars
    /\ [][\A c \in RoomConns :
            PassEnds(c) =>
               \A x \in iter[c].snap \cap active_connections[iter[c].room] :
                  ~broken[x] =>
                     /\ BagIn(iter[c].msg, outbox'[x])
                     /\ iter[c].msg.type = "message"
                     /\ iter[c].msg.room_id = room[c]
                     /\ iter[c].msg.user_id = user[c]
                     /\ iter[c].msg.username = Username(user[c])]_vars

\* C6 as stated: the step that takes a frame that is no JSON writes the
\* error frame "Invalid message format" to that connection and to no other,
\* changes neither store, bus nor registry, and returns to the receive loop.
C6_AsStated ==
    [][ev'.kind = "invalid_json" =>
          /\ outbox' = Sent(outbox, ev'.who, ErrorFrame(InvalidFormat))
          /\ BagIn(ErrorFrame(InvalidFormat), outbox'[ev'.who])
          /\ UNCHANGED <<store, bus, registry>>
          /\ pc'[ev'.who] = "recv"]_vars

\* C6, amended: the step that takes a frame that is no JSON persists,
\* broadcasts and publishes nothing and writes to no other connection; if the
\* transport of the connection has not failed, the connection gets the error
\* frame "Invalid message format", stays registered and returns to the
\* receive loop; if it has failed, the send raises and the handler
\* deregisters the connection and ends.
C6_InvalidJsonIsLocal ==
    [][ev'.kind = "invalid_json" =>
          LET c == ev'.who IN
          /\ UNCHANGED <<store, bus>>
          /\ \A t \in Tasks : iter'[t].seen = iter[t].seen \/ ~iter'[t].active
          /\ \A x \in Conns \ {c} : outbox'[x] = outbox[x]
          /\ IF ~broken[c]
             THEN /\ outbox'[c] = outbox[c] (+) SetToBag({ErrorFrame(InvalidFormat)})
                  /\ UNCHANGED registry
                  /\ pc'[c] = "recv"
             ELSE /\ outbox'[c] = outbox[c]
                  /\ \A r \in Rooms : c \notin active_connections'[r]
                  /\ websocket_users'[c] = None
                  /\ pc'[c] = "closed"]_vars

C6_Witness ==
    /\ ev.kind = "invalid_json" /\ ev.who = "c1"
    /\ pc["c1"] = "recv"
    /\ active_connections[1] = {"c1", "c2"}
    /\ Has("c1", ErrorFrame(InvalidFormat))
    /\ Has("c1", ConnectedFrame(1, "A"))

\* C7: a chat handler that has ended, by whatever exit, has left no entry
\* behind: its connection is in no room's set and has no user mapping.
C7_NoStaleEntry ==
    \A c \in RoomConns : Ended(c) => Unregistered(c)

\* C8: the set of subscribed channels is the set of rooms with at least one
\* local connection.
C8_SubscriptionsTrackRooms ==
    subscribed = {r \in Rooms : active_connections[r] # {}}

\* C9: once connect() has returned for a connection of room R, the process is
\* subscribed to R's channel, and a payload that another process publishes
\* for R from then on is handed to this process's pubsub.
C9_SubscribedWhenConnectReturns ==
    /\ [](\A c \in RoomConns :
            (pc[c] \in {"confirming", "recv", "bpass"} /\ Registered(c))
               => room[c] \in subscribed)
    /\ [][\A c \in RoomConns :
            (/\ pc[c] \in {"confirming", "recv", "bpass"} /\ Registered(c)
             /\ ev'.kind = "external" /\ ev'.arg = room[c])
               => /\ Len(pubsub_queue') = Len(pubsub_queue) + 1
                  /\ pubsub_queue'[Len(pubsub_queue')].room = room[c]]_vars

\* C10 as stated: after a failed publish the message is in the store, the
\* pass has written to every connection that was registered for the room
\* throughout it, the sender has no error frame for it, is in its receive
\* loop and is registered.
C10_AsStated ==
    [][(ev'.pub = "failed" /\ ev'.kind = "pass_done") =>
          LET c == ev'.who IN
          /\ store' = store
          /\ \E i \in 1..Len(store) : MessageFrame(store[i]) = iter[c].msg
          /\ (iter[c].snap \cap active_connections[iter[c].room]) \subseteq iter[c].seen
          /\ outbox'[c] = outbox[c]
          /\ pc'[c] = "recv"
          /\ c \in active_connections'[room[c]]]_vars

\* C10, amended: when the publish of a send fails, the message is in the
\* store, the pass has written to every connection that was registered for
\* the room throughout it, and the failure raises nothing: no connection is
\* written an error frame, the sender is back in its receive loop, and every
\* connection is registered as before, except those the pass deregisters
\* because the write to them failed, the sender itself among them if the
\* write to it failed.
C10_PublishFailureSwallowed ==
    [][(ev'.pub = "failed" /\ ev'.who \in RoomConns) =>
          LET c == ev'.who IN
          /\ ev'.kind \in {"pass_done", "message"}
          /\ ev'.kind = "pass_done" =>
                /\ store' = store
                /\ \E i \in 1..Len(store) : MessageFrame(store[i]) = iter[c].msg
                /\ (iter[c].snap \cap active_connections[iter[c].room])
                      \subseteq iter[c].seen
          /\ ev'.kind = "message" =>
                /\ Len(store') = Len(store) + 1
                /\ active_connections[room[c]] = {}
          /\ outbox' = outbox
          /\ pc'[c] = "recv"
          /\ UNCHANGED bus
          /\ \A x \in Conns \ iter[c].failed :
                /\ websocket_users'[x] = websocket_users[x]
                /\ \A r \in Rooms :
                     x \in active_connections'[r] <=> x \in active_connections[r]]_vars

C10_Witness ==
    /\ ev.pub = "failed" /\ ev.kind = "pass_done" /\ ev.who = "c1"
    /\ pc["c1"] = "recv"
    /\ active_connections[1] = {"c1", "c2"}
    /\ Len(store) = 1
    /\ Has("c1", MessageFrame(store[1]))
    /\ Has("c2", MessageFrame(store[1]))

\* the message frames in flight or delivered all have their row in the store
Persisted(frame) ==
    frame.type = "message" => \E i \in 1..Len(store) : MessageFrame(store[i]) = frame

\* C11 as stated: every message frame written, queued or being written has
\* its row in the store, and the step in which persisting fails writes the
\* error frame to the sender, no message frame to anyone, publishes nothing
\* and returns the sender to its receive loop.
C11_AsStated ==
    /\ [](\A c \in Conns : \A f \in BagToSet(outbox[c]) : Persisted(f))
    /\ [][ev'.kind = "store_failed" =>
            /\ BagIn(ErrorFrame(StoreError), outbox'[ev'.who])
            /\ pc'[ev'.who] = "recv"
            /\ UNCHANGED <<store, bus>>]_vars

\* C11, amended: every message frame written to a connection, queued on the
\* bus or carried by a pass has its row in the store; the step in which
\* persisting fails stores and publishes nothing, starts no pass and writes
\* to no other connection; if the sender's transport has not failed the
\* sender gets the error frame, stays registered and returns to its receive
\* loop, and if it has failed the send raises and the handler deregisters the
\* sender and ends.
C11_NoFanOutUnlessPersisted ==
    /\ [](/\ \A c \in Conns : \A f \in BagToSet(outbox[c]) : Persisted(f)
          /\ \A i \in 1..Len(pubsub_queue) : Persisted(pubsub_queue[i].data)
          /\ \A t \in Tasks : iter[t].active => Persisted(iter[t].msg))
    /\ [][ev'.kind = "store_failed" =>
            LET c == ev'.who IN
            /\ UNCHANGED <<store, bus>>
            /\ \A t \in Tasks : iter'[t].seen = iter[t].seen \/ ~iter'[t].active
            /\ \A x \in Conns \ {c} : outbox'[x] = outbox[x]
            /\ IF ~broken[c]
               THEN /\ outbox'[c] = outbox[c] (+) SetToBag({ErrorFrame(StoreError)})
                    /\ UNCHANGED registry
                    /\ pc'[c] = "recv"
               ELSE /\ outbox'[c] = outbox[c]
                    /\ \A r \in Rooms : c \notin active_connections'[r]
                    /\ websocket_users'[c] = None
                    /\ pc'[c] = "closed"]_vars

C11_Witness ==
    /\ ev.kind = "store_failed" /\ ev.who = "c1"
    /\ pc["c1"] = "recv"
    /\ active_connections[1] = {"c1", "c2"}
    /\ store = <<>>
    /\ Has("c1", ErrorFrame(StoreError))
    /\ outbox["c2"] = SetToBag({ConnectedFrame(1, "B")})

\* C12: the step that takes a message frame with content X from a connection
\* of user A for room R appends the row (R, A, X) to the store; no later
\* step removes or changes a row; and when the broadcast of the message ends,
\* by completing, with every write failed, with the publish failed or with
\* an error in the pass, the row is in the store.
C12_AcceptedIsStored ==
    /\ [][ev'.kind = "message" =>
            LET c == ev'.who
                m == store'[Len(store')] IN
            /\ Len(store') = Len(store) + 1
            /\ m.room_id = room[c] /\ m.sender_id = user[c]
            /\ m.content = Raw(ev'.arg).content /\ m.content # ""]_vars
    /\ [][/\ Len(store') >= Len(store)
          /\ \A i \in 1..Len(store) : store'[i] = store[i]]_vars
    /\ [][\A c \in RoomConns :
            PassEnds(c) =>
               \E i \in 1..Len(store') :
                  /\ MessageFrame(store'[i]) = iter[c].msg
                  /\ store'[i].sender_id = user[c]
                  /\ store'[i].room_id = room[c]]_vars

\* the message is stored although the only write of the pass, the one back
\* to the sender, failed and the publish failed as well
C12_Witness ==
    /\ ev.kind = "pass_done" /\ ev.pub = "failed" /\ ev.who = "c1"
    /\ broken["c1"] /\ Unregistered("c1")
    /\ Len(store) = 1 /\ store[1].content = "hi" /\ store[1].sender_id = "A"
    /\ \A c \in Conns : ~Has(c, MessageFrame(store[1]))

\* C13: a chat connection that has been accepted and registered and whose
\* connected frame is not written yet has been written no frame at all: the
\* connected frame is the first frame it gets.
C13_ConnectedFirst ==
    \A c \in RoomConns : pc[c] = "confirming" => outbox[c] = EmptyBag

\* C14: a handler reads a frame only in its receive loop with no pass of its
\* own in progress, so the store, pass and publish of its previous frame are
\* over; while its pass is in progress it is inside broadcast_to_room; and
\* the rows of the store are in the order in which the frames were read.
C14_InArrivalOrder ==
    /\ [](\A i \in 1..Len(store) :
            store[i].id = i /\ store[i].content = Inbound(i).content)
    /\ [](\A c \in RoomConns : iter[c].active => pc[c] = "bpass")
    /\ [][\A c \in RoomConns :
            (ev'.kind = "message" /\ ev'.who = c)
               => pc[c] = "recv" /\ ~iter[c].active]_vars

C14_Witness ==
    /\ Len(store) = 2
    /\ store[1].sender_id = "A" /\ store[2].sender_id = "A"
    /\ store[1].content = "hi" /\ store[2].content = "yo"
    /\ pc["c1"] = "recv" /\ active_connections[1] = {"c1", "c2"}
    /\ Has("c2", MessageFrame(store[1])) /\ Has("c2", MessageFrame(store[2]))

\* a typing frame is only ever one of a member of the frame's room
Authorized(frame) ==
    frame.type = "typing" => IsMember(frame.user_id, frame.room_id)

\* C15: every typing frame written to a connection, queued on the bus or
\* carried by a pass names a room the sending user is a member of, and is
\* written only to connections registered for that room; the step that takes
\* a typing frame for room R from a notification connection starts the
\* broadcast for R (the pass over R's connections, or the publish when R has
\* none) exactly when the user is a member of R, does nothing at all when
\* the user is not, and in neither case changes the store.
C15_TypingNeedsMembership ==
    /\ [](/\ \A c \in Conns : \A f \in BagToSet(outbox[c]) :
                /\ Authorized(f)
                /\ f.type = "typing" => scope[c] = "room" /\ room[c] = f.room_id
          /\ \A i \in 1..Len(pubsub_queue) : Authorized(pubsub_queue[i].data)
          /\ \A t \in Tasks : iter[t].active => Authorized(iter[t].msg))
    /\ [][ev'.kind = "typing" =>
            LET c == ev'.who
                r == Raw(ev'.arg).room_id IN
            /\ IsMember(user[c], r)
            /\ store' = store
            /\ IF active_connections[r] # {}
               THEN /\ iter'[c].active /\ iter'[c].room = r
                    /\ iter'[c].msg = TypingFrame(r, user[c])
                    /\ iter'[c].seen # {}
                    /\ iter'[c].seen \subseteq active_connections[r]
               ELSE /\ ev'.pub # None
                    /\ outbox' = outbox]_vars
    /\ [][ev'.kind = "typing_ignored" =>
            /\ ~IsMember(user[ev'.who], Raw(ev'.arg).room_id)
            /\ UNCHANGED <<store, bus, outbox, iter, registry>>]_vars

\* user B, no member of room 2, has sent a typing frame for room 2 while
\* both rooms have a connection: the frame was ignored and nobody was written
C15_Witness ==
    /\ ev.kind = "typing_ignored" /\ ev.who = "n1" /\ ev.arg = "typing2"
    /\ user["n1"] = "B" /\ pc["n1"] = "recv"
    /\ active_connections[1] = {"c2"} /\ active_connections[2] = {"c1"}
    /\ outbox["c1"] = SetToBag({ConnectedFrame(2, "A")})
    /\ outbox["c2"] = SetToBag({ConnectedFrame(1, "B")})
    /\ store = <<>>

\* C16: when the broadcast of a typing frame that a notification connection
\* sent for a room of its user ends, that notification connection has been
\* written the typing frame with the room and its own user.
C16_SenderGetsTyping ==
    [][(/\ ev'.who \in NotifConns
        /\ \/ ev'.kind = "pass_done"
           \/ ev'.kind = "typing" /\ ev'.pub # None) =>
          \E r \in Rooms : BagIn(TypingFrame(r, user[ev'.who]), outbox'[ev'.who])]_vars

\* C17: once a reset_password call with token T has returned True,
\* verify_reset_token(T) answers None with or without Redis, and no call with
\* token T returns True or changes the password from then on.
C17_SingleUse ==
    /\ [](\A k \in ResetCalls :
            reset_call[k].result = "True" =>
               \A avail \in BOOLEAN, ok \in BOOLEAN :
                  verify_reset_token(reset_call[k].token, avail, ok) = None)
    /\ [][\A k, j \in ResetCalls :
            (/\ reset_call[k].result = "True"
             /\ reset_call'[j].token = reset_call[k].token
             /\ reset_call'[j] # reset_call[j])
               => /\ reset_call'[j].result # "True"
                  /\ hashed_password' = hashed_password]_vars

\* C18: while a pass over room R is suspended on a write, no step of another
\* task changes R's connection set, and no pass ever ends with the error of
\* a set that changed under it.
C18_PassSerialized ==
    /\ [][\A t \in Tasks :
            (iter[t].active /\ iter'[t].active /\ iter'[t].seen = iter[t].seen)
               => active_connections'[iter[t].room] = active_connections[iter[t].room]]_vars
    /\ [](ev.kind # "pass_error")

\* C19: the process is not left without a listening loop for good: whenever
\* connect() registers a connection, a listening loop is running when it
\* returns, also after an earlier loop has ended with an error.
C19_ListenerRuns ==
    [][\A c \in RoomConns :
          (~Registered(c) /\ \E r \in Rooms : c \in active_connections'[r])
             => listener_task' = "running"]_vars

\* C20: a payload that process A publishes for room R while connection c is
\* registered for R in this process is eventually written to c, unless c's
\* transport fails or c is deregistered.
C20_RemoteReachesLocal ==
    \A c \in RoomConns :
        [](( /\ ev.kind = "external" /\ ev.arg = room[c]
             /\ Registered(c) /\ ~broken[c])
              => <>(\/ Has(c, ExternalFrame(room[c]))
                    \/ broken[c]
                    \/ ~Registered(c)))

\* C21: a chat session that is in its receive loop or inside a broadcast of
\* its own has its connection registered, and the step that persists and
\* broadcasts a frame is never one of a connection that is not registered.
C21_ActiveIsRegistered ==
    /\ [](\A c \in RoomConns : pc[c] \in {"recv", "bpass"} => Registered(c))
    /\ [][ev'.kind = "message" => Registered(ev'.who)]_vars

\* C22: every step that reads a frame which is not a message with content
\* writes an error frame to the connection that sent it, or, when that
\* connection's transport has failed, ends its handler.
C22_MalformedGetsError ==
    [][(budget' < budget /\ ev'.kind # "message") =>
          \E c \in RoomConns :
             /\ pc[c] = "recv"
             /\ \/ \E message \in {InvalidFormat, NotADict} :
                      outbox'[c] = outbox[c] (+) SetToBag({ErrorFrame(message)})
                \/ broken[c] /\ pc'[c] = "closed"]_vars

C24_DisconnectIsSafe ==
    /\ [](\A c \in Conns, r \in RoomIds :
            LET ac == disconnect_ac(active_connections, c, r)
                wu == disconnect_wu(websocket_users, c) IN
            /\ disconnect_ac(ac, c, r) = ac
            /\ disconnect_wu(wu, c) = wu
            /\ (r \notin Rooms => ac = active_connections))
    /\ [][\A t \in Tasks :
            (PassEnds(t) /\ SetChangedSize(iter[t])) =>
               /\ ~iter[t].dead
               /\ Cardinality(active_connections[iter[t].room])
                     > Cardinality(iter[t].snap)]_vars

\* C25: a failure stays with the connection it happens to: a connection is
\* deregistered or closed only when its own transport has failed, and while
\* any room has a registered connection no step ends the listening loop that
\* delivers the bus's payloads to every room.
C25_FailureIsContained ==
    /\ [][\A c \in RoomConns :
            (\/ Registered(c) /\ ~(\E r \in Rooms : c \in active_connections'[r])
             \/ pc[c] # "closed" /\ pc'[c] = "closed") => broken[c]]_vars
    /\ [][(listener_task = "running" /\ \E r \in Rooms : active_connections'[r] # {})
            => listener_task' = "running"]_vars

\* C26: no connection is written the frame of one persisted message more
\* than once: the sender's own pass and the listener's pass over the payload
\* that the process itself published never both deliver it.
C26_AtMostOnce ==
    \A c \in RoomConns :
        \A frame \in BagToSet(outbox[c]) :
            (frame.type = "message" /\ frame.id # 0) => CopiesIn(frame, outbox[c]) = 1

\* C27: no step of the listening loop puts a payload on the bus, the bus
\* gains at most one payload in a step and only by the publish of a sender's
\* broadcast, and every broadcast of a persisted message ends with its one
\* publish.
C27_OnePublishPerSend ==
    /\ [][(ListenerLoop \/ ListenerPassStep) =>
            Len(pubsub_queue') <= Len(pubsub_queue)]_vars
    /\ [][Len(pubsub_queue') > Len(pubsub_queue) =>
            /\ Len(pubsub_queue') = Len(pubsub_queue) + 1
            /\ ev'.pub = "ok"]_vars
    /\ [][\A c \in RoomConns :
            (PassEnds(c) /\ iter[c].msg.type = "message") => ev'.pub # None]_vars

\* C28: a message or typing frame for room R is written only to connections
\* that are registered for R when it is written, by a sender's pass or by
\* the listener's; a connection that is registered for another room only is
\* never written it.
C28_RoomIsolation ==
    [][\A c \in Conns :
          \A frame \in BagToSet(outbox'[c]) :
             (/\ frame.type \in {"message", "typing"}
              /\ CopiesIn(frame, outbox'[c]) > CopiesIn(frame, outbox[c]))
                => c \in active_connections[frame.room_id]]_vars

C28_Witness ==
    /\ active_connections[1] = {"c2"} /\ active_connections[2] = {"c1"}
    /\ Len(store) = 1 /\ store[1].room_id = 2
    /\ CopiesIn(MessageFrame(store[1]), outbox["c1"]) = 2
    /\ Has("c2", TypingFrame(1, "B"))
    /\ ~Has("c1", TypingFrame(1, "B"))
    /\ ~Has("c2", MessageFrame(store[1]))

\* C29: in every state a connection has an entry in the connection-to-user
\* mapping exactly when it is in the connection set of exactly one room.
C29_MappingMatchesRegistry ==
    \A c \in Conns :
        websocket_users[c] # None <=>
            Cardinality({r \in Rooms : c \in active_connections[r]}) = 1

\* c2 has been taken out by the cleanup of c1's pass while its handler still
\* waits for a frame
C29_Witness ==
    /\ ev.kind = "pass_done" /\ ev.who = "c1"
    /\ active_connections[1] = {"c1"} /\ websocket_users["c1"] = "A"
    /\ room["c2"] = 1 /\ pc["c2"] = "recv" /\ broken["c2"]
    /\ websocket_users["c2"] = None

\* C30: a message posted over HTTP is appended to the messages table and the
\* step writes no frame, publishes nothing and leaves the registry alone;
\* from then on no connection is ever written, and the bus never carries, a
\* frame with that message.
C30_RestIsSilent ==
    /\ [][ev'.kind = "rest_message" =>
            /\ store' = Append(store, [id |-> Len(store) + 1, room_id |-> ev'.arg,
                                       sender_id |-> ev'.who,
                                       content |-> RestContent])
            /\ UNCHANGED <<registry, bus, iter, outbox>>]_vars
    /\ [](/\ \A c \in Conns :
              \A frame \in BagToSet(outbox[c]) : frame.content # RestContent
          /\ \A i \in DOMAIN pubsub_queue :
              pubsub_queue[i].data.content # RestContent)

\* B's post for room 1 is stored while both connections of the room are
\* registered and the process listens on the room's channel; A's later frame
\* reaches c2, the post reaches no one
C30_Witness ==
    /\ Len(store) = 2
    /\ store[1].content = RestContent /\ store[1].room_id = 1
    /\ store[1].sender_id = "B"
    /\ active_connections[1] = {"c1", "c2"} /\ 1 \in subscribed
    /\ Has("c2", MessageFrame(store[2]))
    /\ ~Has("c2", MessageFrame(store[1])) /\ ~Has("c1", MessageFrame(store[1]))

====
